---- MODULE Spec2Model ----
(***************************************************************************)
(* A model of VAE1D.py: the 1-D convolutional VAE (VAE1D), its loss        *)
(* (VAE1DLoss) and the normalizing dataset (TransientDataset).             *)
(*                                                                         *)
(* Tensors of the network are modelled by their shapes (the claims about   *)
(* the network are claims about geometry); tensors of the loss carry exact *)
(* rational values.  Python exceptions are modelled as results that are    *)
(* not ok and name the exception.                                          *)
(***************************************************************************)
EXTENDS Integers, Sequences, FiniteSets, Bags, TLC

VARIABLES
    \* ---- VAE1D session
    size, n_channels, n_latent,   \* constructor arguments
    trans,                        \* shape of the input batch handed to encode / forward
    net,                          \* the constructed module (net.built = FALSE before / on failure)
    vpc,                          \* position of the session
    verr,                         \* exception raised by the last call, "none" otherwise
    enc_out,                      \* encode: shape of self.encoder(trans) after the squeezes
    lat,                          \* encode's return value [mu, logvar] (shapes)
    gen,                          \* generate's return value (shape)
    recon,                        \* decode's return value (shape)
    fwd,                          \* forward's return value
    \* ---- TransientDataset session
    fs,                           \* the directory tree under data_path
    normals,                      \* per-channel <<mean, std>>
    ds,                           \* the dataset object (mu, sigma, classes, names, targets)
    wk,                           \* the workers' calls in progress (position, locals, result), as a bag
    \* ---- VAE1DLoss session
    beta,                         \* self.beta
    args,                         \* the tensors handed to the loss: gen_trans, trans, mu, logvar
    outs                          \* what forward returned, for reduce = TRUE and reduce = FALSE

vaeVars == <<size, n_channels, n_latent, trans, net, vpc, verr, enc_out, lat, gen, recon, fwd>>
dataVars == <<fs, normals, ds, wk>>
lossVars == <<beta, args, outs>>

vars == <<vaeVars, dataVars, lossVars>>

-----------------------------------------------------------------------------
(* Bounds of the model *)

MaxSize == 64
MaxChannels == 2
MaxLatent == 2
MaxBatch == 2

-----------------------------------------------------------------------------
(* Module-level hyperparameters *)

depth == 64
filt_size == 4
stride == 2
pad == 1

-----------------------------------------------------------------------------
(* Results of calls: a value, or a raised exception *)

Ok(v) == [ok |-> TRUE, val |-> v, err |-> "none"]
Raise(e) == [ok |-> FALSE, val |-> <<>>, err |-> e]

NoShape == <<>>

-----------------------------------------------------------------------------
(* math.log2 on a positive integer, as the pair (integer part, whether the  *)
(* float has no fractional part).  For 0 < size < 2^53 the float result is  *)
(* integral exactly when size is a power of two.                            *)

RECURSIVE FloorLog2(_)
FloorLog2(x) == IF x < 2 THEN 0 ELSE 1 + FloorLog2(x \div 2)

Log2(x) == [whole |-> FloorLog2(x), integral |-> 2 ^ FloorLog2(x) = x]

\* The size checks without the power-of-two assertion.
ValidateSizeNoPow2(sz) ==
    IF sz <= 0 THEN Raise("ValueError")
    ELSE LET n == Log2(sz) IN
         IF n.whole < 3
         THEN Raise("AssertionError: Vector size must be at least 8")
         ELSE Ok(n.whole)

\* n = math.log2(size); assert n == round(n); assert n >= 3; n = int(n)
ValidateSize(sz) ==
    IF sz <= 0 THEN Raise("ValueError")     \* math.log2: math domain error
    ELSE LET n == Log2(sz) IN
         IF ~n.integral
         THEN Raise("AssertionError: Vector size must be a power of 2")
         ELSE IF n.whole < 3
         THEN Raise("AssertionError: Vector size must be at least 8")
         ELSE Ok(n.whole)

-----------------------------------------------------------------------------
(* Layers *)

Conv1d(cin, cout, k, s, p) == [type |-> "Conv1d", cin |-> cin, cout |-> cout, k |-> k, s |-> s, p |-> p]
ConvTranspose1d(cin, cout, k, s, p) ==
    [type |-> "ConvTranspose1d", cin |-> cin, cout |-> cout, k |-> k, s |-> s, p |-> p]
BatchNorm1d(nf) == [type |-> "BatchNorm1d", cin |-> nf, cout |-> nf, k |-> 0, s |-> 0, p |-> 0]
ReLU == [type |-> "ReLU", cin |-> 0, cout |-> 0, k |-> 0, s |-> 0, p |-> 0]
Tanh == [type |-> "Tanh", cin |-> 0, cout |-> 0, k |-> 0, s |-> 0, p |-> 0]

\* nn.Sequential.add_module: a module registered under a name already in use
\* replaces the earlier one in place, otherwise it is appended.
AddModule(sq, name, layer) ==
    IF \E j \in 1..Len(sq) : sq[j].name = name
    THEN [j \in 1..Len(sq) |-> IF sq[j].name = name THEN [name |-> name, layer |-> layer] ELSE sq[j]]
    ELSE Append(sq, [name |-> name, layer |-> layer])

\* The pyramid with one stage too many (range(n - 2)).
RECURSIVE EncoderPyramidExtra(_, _, _)
EncoderPyramidExtra(enc, i, n) ==
    IF i >= n - 2 THEN enc
    ELSE LET i_depth == depth * 2 ^ i
             o_depth == depth * 2 ^ (i + 1)
             e1 == AddModule(enc, <<"pyramid", i_depth, o_depth, "conv">>,
                             Conv1d(i_depth, o_depth, filt_size, stride, pad))
             e2 == AddModule(e1, <<"pyramid", o_depth, o_depth, "batchnorm">>, BatchNorm1d(o_depth))
             e3 == AddModule(e2, <<"pyramid", o_depth, o_depth, "relu">>, ReLU)
         IN EncoderPyramidExtra(e3, i + 1, n)

\* for i in range(n - 3): conv, batchnorm, relu, doubling the depth
RECURSIVE EncoderPyramid(_, _, _)
EncoderPyramid(enc, i, n) ==
    IF i >= n - 3 THEN enc
    ELSE LET i_depth == depth * 2 ^ i
             o_depth == depth * 2 ^ (i + 1)
             e1 == AddModule(enc, <<"pyramid", i_depth, o_depth, "conv">>,
                             Conv1d(i_depth, o_depth, filt_size, stride, pad))
             e2 == AddModule(e1, <<"pyramid", o_depth, o_depth, "batchnorm">>, BatchNorm1d(o_depth))
             e3 == AddModule(e2, <<"pyramid", o_depth, o_depth, "relu">>, ReLU)
         IN EncoderPyramid(e3, i + 1, n)

\* self.encoder: the input convolution, its relu, and the pyramid
BuildEncoder(n, nch) ==
    LET e1 == AddModule(<<>>, <<"input", 0, 0, "conv">>, Conv1d(nch, depth, filt_size, stride, pad))
        e2 == AddModule(e1, <<"input", 0, 0, "relu">>, ReLU)
    IN EncoderPyramid(e2, 0, n)

\* for i in range(n - 3, 0, -1): transposed conv, batchnorm, relu, halving the depth
RECURSIVE DecoderPyramid(_, _)
DecoderPyramid(dec, i) ==
    IF i <= 0 THEN dec
    ELSE LET i_depth == depth * 2 ^ i
             o_depth == depth * 2 ^ (i - 1)
             d1 == AddModule(dec, <<"pyramid", i_depth, o_depth, "conv">>,
                             ConvTranspose1d(i_depth, o_depth, filt_size, stride, pad))
             d2 == AddModule(d1, <<"pyramid", o_depth, o_depth, "batchnorm">>, BatchNorm1d(o_depth))
             d3 == AddModule(d2, <<"pyramid", o_depth, o_depth, "relu">>, ReLU)
         IN DecoderPyramid(d3, i - 1)

\* The decoder with one pyramid stage too many (range(n - 2, 0, -1)).
BuildDecoderExtra(n, nch, nlat) ==
    LET max_depth == depth * 2 ^ (n - 3)
        d1 == AddModule(<<>>, <<"input", 0, 0, "conv">>, ConvTranspose1d(nlat, max_depth, filt_size, 1, 0))
        d2 == AddModule(d1, <<"input", 0, 0, "batchnorm">>, BatchNorm1d(max_depth))
        d3 == AddModule(d2, <<"input", 0, 0, "relu">>, ReLU)
        d4 == DecoderPyramid(d3, n - 2)
        d5 == AddModule(d4, <<"output", 0, 0, "conv">>, ConvTranspose1d(depth, nch, filt_size, stride, pad))
    IN AddModule(d5, <<"output", 0, 0, "tanh">>, Tanh)

\* self.decoder
BuildDecoder(n, nch, nlat) ==
    LET max_depth == depth * 2 ^ (n - 3)
        d1 == AddModule(<<>>, <<"input", 0, 0, "conv">>, ConvTranspose1d(nlat, max_depth, filt_size, 1, 0))
        d2 == AddModule(d1, <<"input", 0, 0, "batchnorm">>, BatchNorm1d(max_depth))
        d3 == AddModule(d2, <<"input", 0, 0, "relu">>, ReLU)
        d4 == DecoderPyramid(d3, n - 3)
        d5 == AddModule(d4, <<"output", 0, 0, "conv">>, ConvTranspose1d(depth, nch, filt_size, stride, pad))
    IN AddModule(d5, <<"output", 0, 0, "tanh">>, Tanh)

NoModel == [built |-> FALSE, n |-> 0, encoder |-> <<>>, conv_mu |-> ReLU, conv_logvar |-> ReLU,
            decoder |-> <<>>]

\* VAE1D.__init__ once the size checks have passed
BuildModel(n, nch, nlat) ==
    LET max_depth == depth * 2 ^ (n - 3) IN
    [built |-> TRUE, n |-> n,
     encoder |-> BuildEncoder(n, nch),
     conv_mu |-> Conv1d(max_depth, nlat, filt_size, 1, 0),
     conv_logvar |-> Conv1d(max_depth, nlat, filt_size, 1, 0),
     decoder |-> BuildDecoder(n, nch, nlat)]

-----------------------------------------------------------------------------
(* Shapes through the layers.  A shape is a sequence of dimensions; the     *)
(* layers take (N, C, L) or, unbatched, (C, L).                             *)

Prod(shape) ==
    LET RECURSIVE P(_)
        P(j) == IF j > Len(shape) THEN 1 ELSE shape[j] * P(j + 1)
    IN P(1)

SetLast(shape, c, l) == [j \in 1..Len(shape) |->
                            IF j = Len(shape) THEN l
                            ELSE IF j = Len(shape) - 1 THEN c ELSE shape[j]]

ApplyLayer(layer, shape) ==
    CASE layer.type = "Conv1d" ->
            IF Len(shape) \notin {2, 3} THEN Raise("RuntimeError: expected 2D or 3D input")
            ELSE IF shape[Len(shape) - 1] # layer.cin THEN Raise("RuntimeError: channel mismatch")
            ELSE IF shape[Len(shape)] + 2 * layer.p < layer.k
            THEN Raise("RuntimeError: kernel size larger than input")
            ELSE Ok(SetLast(shape, layer.cout,
                            (shape[Len(shape)] + 2 * layer.p - layer.k) \div layer.s + 1))
      [] layer.type = "ConvTranspose1d" ->
            IF Len(shape) \notin {2, 3} THEN Raise("RuntimeError: expected 2D or 3D input")
            ELSE IF shape[Len(shape) - 1] # layer.cin THEN Raise("RuntimeError: channel mismatch")
            ELSE Ok(SetLast(shape, layer.cout,
                            (shape[Len(shape)] - 1) * layer.s - 2 * layer.p + layer.k))
      [] layer.type = "BatchNorm1d" ->
            IF Len(shape) \notin {2, 3} THEN Raise("ValueError: expected 2D or 3D input")
            ELSE IF shape[2] # layer.cin THEN Raise("RuntimeError: running_mean size mismatch")
            ELSE IF Prod(shape) \div shape[2] <= 1
            THEN Raise("ValueError: Expected more than 1 value per channel when training")
            ELSE Ok(shape)
      [] OTHER -> Ok(shape)

\* nn.Sequential.forward from module j on
RECURSIVE RunSequential(_, _, _)
RunSequential(sq, j, shape) ==
    IF j > Len(sq) THEN Ok(shape)
    ELSE LET r == ApplyLayer(sq[j].layer, shape) IN
         IF r.ok THEN RunSequential(sq, j + 1, r.val) ELSE r

\* Tensor.squeeze(-1): drops the last dimension when it is 1
Squeeze(shape) ==
    IF Len(shape) > 0 /\ shape[Len(shape)] = 1 THEN SubSeq(shape, 1, Len(shape) - 1) ELSE shape

\* output = self.encoder(trans); output = output.squeeze(-1).squeeze(-1)
EncoderOutput(m, x) ==
    LET r == RunSequential(m.encoder, 1, x) IN
    IF r.ok THEN Ok(Squeeze(Squeeze(r.val))) ELSE r

\* VAE1D.encode
EncodeOp(m, x) ==
    LET o == EncoderOutput(m, x) IN
    IF ~o.ok THEN o
    ELSE LET a == ApplyLayer(m.conv_mu, o.val)
             b == ApplyLayer(m.conv_logvar, o.val)
         IN IF ~a.ok THEN a ELSE IF ~b.ok THEN b ELSE Ok([mu |-> a.val, logvar |-> b.val])

(* Broadcasting of shapes *)

Max(a, b) == IF a >= b THEN a ELSE b

\* dimension k of `shape` once it is aligned to the right in rank r
DimAt(shape, k, r) == IF k > r - Len(shape) THEN shape[k - (r - Len(shape))] ELSE 1

Broadcastable(sa, sb) ==
    LET r == Max(Len(sa), Len(sb)) IN
    \A k \in 1..r : DimAt(sa, k, r) = DimAt(sb, k, r) \/ DimAt(sa, k, r) = 1 \/ DimAt(sb, k, r) = 1

BroadcastShape(sa, sb) ==
    LET r == Max(Len(sa), Len(sb)) IN
    [k \in 1..r |-> IF DimAt(sa, k, r) = 1 THEN DimAt(sb, k, r) ELSE DimAt(sa, k, r)]

\* VAE1D.generate: std = exp(0.5 * logvar) and gen = randn_like(std) have logvar's
\* shape, and so has gen.mul(std); add_(mu) adds in place, so mu must broadcast to
\* that shape without enlarging it.
GenerateOp(mu, logvar) ==
    IF Broadcastable(logvar, mu) /\ BroadcastShape(logvar, mu) = logvar
    THEN Ok(logvar)
    ELSE Raise("RuntimeError: output with shape doesn't match the broadcast shape")

\* VAE1D.decode
DecodeOp(m, g) == RunSequential(m.decoder, 1, g)

-----------------------------------------------------------------------------
(* Name resolution in VAE1D.forward(self, imgs) *)

ModuleGlobals == {"os", "math", "time", "Path", "date", "np", "pd", "tqdm", "torch", "nn",
                  "DataLoader", "Dataset", "roc_auc_score", "product", "stats",
                  "depth", "filt_size", "stride", "pad",
                  "VAE1D", "VAE1DLoss", "TransientDataset", "load_datasets"}

ForwardParams == {"self", "imgs"}

\* VAE1D.forward: its first statement reads the name `trans`, which is neither a
\* parameter nor a module global.  Were it bound to the batch, the body would run
\* encode, generate and decode; the squeeze loop rebinds a local and changes nothing.
ForwardOp(m, imgs) ==
    IF "trans" \notin ForwardParams \cup ModuleGlobals
    THEN Raise("NameError: name 'trans' is not defined")
    ELSE LET e == EncodeOp(m, imgs) IN
         IF ~e.ok THEN e
         ELSE LET g == GenerateOp(e.val.mu, e.val.logvar) IN
              IF ~g.ok THEN g
              ELSE LET d == DecodeOp(m, g.val) IN
                   IF ~d.ok THEN d
                   ELSE Ok([recon |-> d.val, mu |-> e.val.mu, logvar |-> e.val.logvar])

-----------------------------------------------------------------------------
(* Exact rational numbers n/d in lowest terms with d > 0 *)

Abs(x) == IF x < 0 THEN -x ELSE x

RECURSIVE GCD(_, _)
GCD(a, b) == IF b = 0 THEN a ELSE GCD(b, a % b)

Rat(n, d) ==
    LET g == GCD(Abs(n), Abs(d))
        sgn == IF d < 0 THEN -1 ELSE 1
    IN [n |-> sgn * (n \div g), d |-> sgn * (d \div g)]

FromInt(i) == [n |-> i, d |-> 1]
RAdd(a, b) == Rat(a.n * b.d + b.n * a.d, a.d * b.d)
RSub(a, b) == Rat(a.n * b.d - b.n * a.d, a.d * b.d)
RMul(a, b) == Rat(a.n * b.n, a.d * b.d)
RDiv(a, b) == Rat(a.n * b.d, a.d * b.n)
Half == [n |-> 1, d |-> 2]

-----------------------------------------------------------------------------
(* Python values of the dataset: ints, strings (sequences of characters),   *)
(* lists and the (sample, target) tuple, tagged with their type; the field  *)
(* of the type holds the value, the others are empty                        *)

PyNone == [t |-> "none", i |-> 0, chars |-> <<>>, items |-> <<>>, sample |-> <<>>]
PyInt(i) == [PyNone EXCEPT !.t = "int", !.i = i]
PyStr(c) == [PyNone EXCEPT !.t = "str", !.chars = c]
PyList(l) == [PyNone EXCEPT !.t = "list", !.items = l]
PyTuple(smp, target) == [PyNone EXCEPT !.t = "tuple", !.sample = smp, !.i = target.i]

\* lst[key] on a Python list
Subscript(lst, key) ==
    IF key.t # "int"
    THEN Raise("TypeError: list indices must be integers or slices, not " \o key.t)
    ELSE LET j == IF key.i < 0 THEN Len(lst) + key.i ELSE key.i IN
         IF j < 0 \/ j >= Len(lst) THEN Raise("IndexError: list index out of range")
         ELSE Ok(lst[j + 1])

\* lst.index(x) on a Python list: the first position holding a value equal to x
ListIndex(lst, x) ==
    LET hits == {j \in 1..Len(lst) : lst[j] = x} IN
    IF hits = {} THEN Raise("ValueError: not in list")
    ELSE Ok(PyInt((CHOOSE j \in hits : \A h \in hits : j <= h) - 1))

\* sorted() on a sequence of directory names (digits, ordered as their strings are)
RECURSIVE Insert(_, _)
Insert(srt, x) ==
    IF srt = <<>> THEN <<x>>
    ELSE IF x <= Head(srt) THEN <<x>> \o srt
    ELSE <<Head(srt)>> \o Insert(Tail(srt), x)

RECURSIVE Sorted(_)
Sorted(sq) == IF sq = <<>> THEN <<>> ELSE Insert(Sorted(Tail(sq)), Head(sq))

\* [i] * len(names)
Repeat(x, k) == [j \in 1..k |-> x]

\* for i, c in enumerate(self.classes): the listing of each class directory and
\* its targets are appended, each as one list
RECURSIVE IndexLoop(_, _, _, _, _)
IndexLoop(tree, classes, i, names, targets) ==
    IF i >= Len(classes) THEN [names |-> names, targets |-> targets]
    ELSE LET c == classes[i + 1]
             listed == [j \in 1..Len(tree.files[c]) |-> PyStr(tree.files[c][j])]
         IN IndexLoop(tree, classes, i + 1,
                      Append(names, PyList(listed)),
                      Append(targets, PyList(Repeat(PyInt(i), Len(listed)))))

\* TransientDataset.__init__
DatasetInit(tree, nrm) ==
    LET classes == Sorted(tree.listing)
        idx == IndexLoop(tree, classes, 0, <<>>, <<>>)
    IN [mu |-> [c \in 1..Len(nrm) |-> nrm[c][1]],
        sigma |-> [c \in 1..Len(nrm) |-> nrm[c][2]],
        classes |-> classes,
        names |-> idx.names,
        targets |-> idx.targets]

\* TransientDataset.__len__
LenOp(d) == Ok(PyInt(Len(d.names)))

\* TransientDataset.norm: (arr - self.mu) / self.sigma, channel by channel
Norm(d, arr) ==
    [c \in 1..Len(arr) |->
        [k \in 1..Len(arr[c]) |-> RDiv(FromInt(arr[c][k] - d.mu[c]), FromInt(d.sigma[c]))]]

\* np.load(self.path / cls / name)
Load(tree, cls, name) ==
    IF cls.t # "int" \/ name.t # "str" THEN Raise("TypeError: unsupported operand type(s) for /")
    ELSE IF cls.i \notin DOMAIN tree.files
            \/ ~\E j \in 1..Len(tree.files[cls.i]) : tree.files[cls.i][j] = name.chars
    THEN Raise("FileNotFoundError")
    ELSE Ok(tree.content)

\* path = self.path / self.classes[target] / name; return (Tensor(norm(load(path))), target)
GetItemTail(d, tree, name, target) ==
    LET cls == Subscript([j \in 1..Len(d.classes) |-> PyInt(d.classes[j])], target) IN
    IF ~cls.ok THEN cls
    ELSE LET raw == Load(tree, cls.val, name) IN
         IF ~raw.ok THEN raw
         ELSE Ok(PyTuple(Norm(d, raw.val), target))

\* TransientDataset.__getitem__
GetItemOp(d, tree, i) ==
    LET name == Subscript(d.names, i) IN
    IF ~name.ok THEN name
    ELSE LET target == Subscript(d.targets, i) IN
         IF ~target.ok THEN target
         ELSE GetItemTail(d, tree, name.val, target.val)

Npy == <<".", "n", "p", "y">>

\* s[-4:]
LastFour(c) == IF Len(c) <= 4 THEN c ELSE SubSeq(c, Len(c) - 3, Len(c))

\* The local names of TransientDataset.index(self, name): its parameters and the
\* name it assigns, `index`; only the parameters are bound when the test
\* `index[-4:] != '.npy'` reads `index`.
IndexLocals == {"self", "name", "index"}
IndexBound == {"self", "name"}

\* TransientDataset.index.  Were `index` bound to the name, the extension would be
\* appended when missing and the name looked up in self.names.
IndexOp(d, name) ==
    IF "index" \in IndexLocals /\ "index" \notin IndexBound
    THEN Raise("UnboundLocalError: local variable 'index' referenced before assignment")
    ELSE LET index == IF LastFour(name) # Npy THEN name \o Npy ELSE name
         IN ListIndex(d.names, PyStr(index))

-----------------------------------------------------------------------------
(* The directory trees and the workers of the dataset session *)

MaxFiles == 1
MaxIndex == 1

\* loader_args = {'shuffle': True, 'num_workers': 4}
num_workers == 4

ClassNames == {0, 1}
Stems == <<"a", "b", "c", "d", "e", "f">>
FileNames == {<<Stems[k]>> \o Npy : k \in 1..MaxFiles}

\* every order in which os.listdir may list up to k of the members of S
Listings(S, k) ==
    UNION {{l \in [1..m -> S] : \A a, b \in 1..m : a # b => l[a] # l[b]} : m \in 0..k}

RawSample == <<<<2, 2, 2, 2>>>>

Trees ==
    {[listing |-> l, files |-> f, content |-> RawSample] :
        l \in Listings(ClassNames, Cardinality(ClassNames)),
        f \in [ClassNames -> Listings(FileNames, MaxFiles)]}

\* a tree lists files only under the directories it has
WellFormed(tree) ==
    \A c \in ClassNames : (\A j \in 1..Len(tree.listing) : tree.listing[j] # c) => tree.files[c] = <<>>

NoCall == [pc |-> "idle", op |-> "none", i |-> 0, nm |-> <<>>,
           name |-> PyNone, target |-> PyNone, res |-> Ok(PyNone)]

\* the outcome of a call as the caller sees it: the value returned, or the exception
Outcome(r) == [ok |-> r.ok, val |-> IF r.ok THEN r.val ELSE PyNone, err |-> r.err]

EmptyTree == [listing |-> <<>>, files |-> [c \in ClassNames |-> <<>>], content |-> RawSample]

DataIdle ==
    /\ fs = EmptyTree
    /\ normals = <<>>
    /\ ds = DatasetInit(EmptyTree, <<>>)
    /\ wk = EmptyBag

-----------------------------------------------------------------------------
(* Tensors with values: a shape and the elements in row-major order, each an *)
(* exact rational.  A 0-dim tensor has shape <<>> and one element.           *)

Numel(shape) == Prod(shape)

StrideOf(shape, j) == Prod(SubSeq(shape, j + 1, Len(shape)))

\* the multi-index (from 0) of the element at flat position p (from 0)
Unravel(p, shape) == [j \in 1..Len(shape) |-> (p \div StrideOf(shape, j)) % shape[j]]

Ravel(idx, shape) ==
    LET RECURSIVE R(_)
        R(j) == IF j > Len(shape) THEN 0 ELSE idx[j] * StrideOf(shape, j) + R(j + 1)
    IN R(1)

RECURSIVE RSum(_)
RSum(sq) == IF sq = <<>> THEN FromInt(0) ELSE RAdd(Head(sq), RSum(Tail(sq)))

\* the element of t that the element ridx of the broadcast result (rank r) reads
BroadcastElem(t, ridx, r) ==
    t.data[Ravel([j \in 1..Len(t.shape) |->
                     IF t.shape[j] = 1 THEN 0 ELSE ridx[j + r - Len(t.shape)]], t.shape) + 1]

\* the scalar operations the loss applies elementwise
Apply2(op, x, y) ==
    CASE op = "add" -> RAdd(x, y)
      [] op = "sub" -> RSub(x, y)

\* an elementwise binary operation with broadcasting
BinOp(op, a, b) ==
    IF ~Broadcastable(a.shape, b.shape)
    THEN Raise("RuntimeError: The size of tensor a must match the size of tensor b")
    ELSE LET rs == BroadcastShape(a.shape, b.shape)
             r == Len(rs)
         IN Ok([shape |-> rs,
                data |-> [p \in 1..Numel(rs) |->
                             Apply2(op, BroadcastElem(a, Unravel(p - 1, rs), r),
                                        BroadcastElem(b, Unravel(p - 1, rs), r))]])

\* exp to three decimals, on the values the model draws logvar from
Exp(x) ==
    CASE x = FromInt(0) -> FromInt(1)
      [] x = FromInt(1) -> Rat(2718, 1000)
      [] x = FromInt(-1) -> Rat(368, 1000)

Square(x) == RMul(x, x)
Negate(x) == RSub(FromInt(0), x)
Halve(x) == RMul(x, Half)
MinusOne(x) == RSub(x, FromInt(1))

Apply1(op, x) ==
    CASE op = "exp" -> Exp(x)
      [] op = "square" -> Square(x)
      [] op = "negate" -> Negate(x)
      [] op = "halve" -> Halve(x)
      [] op = "minus_one" -> MinusOne(x)

\* an elementwise unary operation
Map(op, a) == [shape |-> a.shape, data |-> [p \in 1..Len(a.data) |-> Apply1(op, a.data[p])]]

\* Tensor.reshape(batch_size, -1)
ReshapeRows(a, rows) ==
    IF rows = 0 \/ Len(a.data) % rows # 0 THEN Raise("RuntimeError: shape is invalid for input")
    ELSE Ok([shape |-> <<rows, Len(a.data) \div rows>>, data |-> a.data])

\* torch.sum(t, dim=-1)
SumLast(a) ==
    LET d == a.shape[Len(a.shape)]
        rs == SubSeq(a.shape, 1, Len(a.shape) - 1)
    IN [shape |-> rs,
        data |-> [p \in 1..Numel(rs) |-> RSum(SubSeq(a.data, (p - 1) * d + 1, p * d))]]

\* torch.mean(t): a 0-dim tensor
Mean(a) == [shape |-> <<>>, data |-> <<RDiv(RSum(a.data), FromInt(Len(a.data)))>>]

\* The reconstruction term: 0.5 * sum((trans - gen_trans)^2) per sample, averaged
\* over the batch when reduce is set.
GenErr(gen_trans, real_trans, reduce) ==
    LET batch_size == real_trans.shape[1]
        diff == BinOp("sub", real_trans, gen_trans)
    IN IF ~diff.ok THEN diff
       ELSE LET rows == ReshapeRows(Map("square", diff.val), batch_size) IN
            IF ~rows.ok THEN rows
            ELSE LET per == Map("halve", SumLast(rows.val)) IN
                 Ok(IF reduce THEN Mean(per) ELSE per)

\* The regularizer with the batch average left out.
KLTermNoMean(mu, logvar, reduce) ==
    LET a == BinOp("add", Map("negate", logvar), Map("exp", logvar))
        b == BinOp("add", a.val, Map("square", mu))
    IN IF ~b.ok THEN b
       ELSE Ok(SumLast(Map("halve", Map("minus_one", b.val))))

\* The regularizer: KL = (-logvar + logvar.exp() + mu.pow(2) - 1) * 0.5, summed over
\* dim -1, averaged when reduce is set.
KLTerm(mu, logvar, reduce) ==
    LET a == BinOp("add", Map("negate", logvar), Map("exp", logvar))
        b == BinOp("add", a.val, Map("square", mu))
    IN IF ~b.ok THEN b
       ELSE LET per == SumLast(Map("halve", Map("minus_one", b.val))) IN
            Ok(IF reduce THEN Mean(per) ELSE per)

NoTensor == [shape |-> <<0>>, data |-> <<>>]
NotCalled == [called |-> FALSE, ok |-> FALSE, err |-> "none",
              loss |-> NoTensor, KL |-> NoTensor, logp |-> NoTensor]
Raised(e) == [NotCalled EXCEPT !.called = TRUE, !.err = e]

\* VAE1DLoss.forward
LossOp(b, gen_trans, real_trans, mu, logvar, reduce) ==
    LET gen_err == GenErr(gen_trans, real_trans, reduce) IN
    IF ~gen_err.ok THEN Raised(gen_err.err)
    ELSE LET KL == KLTerm(mu, logvar, reduce) IN
         IF ~KL.ok THEN Raised(KL.err)
         ELSE LET scaled == [shape |-> KL.val.shape,
                             data |-> [p \in 1..Len(KL.val.data) |-> RMul(FromInt(b), KL.val.data[p])]]
                  loss == BinOp("add", gen_err.val, scaled)
              IN IF ~loss.ok THEN Raised(loss.err)
                 ELSE [called |-> TRUE, ok |-> TRUE, err |-> "none",
                       loss |-> loss.val, KL |-> KL.val, logp |-> Map("negate", gen_err.val)]

NoArgs == [gen_trans |-> NoTensor, trans |-> NoTensor, mu |-> NoTensor, logvar |-> NoTensor]

LossIdle ==
    /\ beta = 0
    /\ args = NoArgs
    /\ outs = [r \in BOOLEAN |-> NotCalled]

-----------------------------------------------------------------------------
(* The VAE1D session: construct, then encode / generate / decode, or forward *)

NoLat == [mu |-> NoShape, logvar |-> NoShape]
NoEnc == [raw |-> NoShape, squeezed |-> NoShape]
NoFwd == [recon |-> NoShape, mu |-> NoShape, logvar |-> NoShape]

VAEIdle ==
    /\ size = 0
    /\ n_channels = 0
    /\ n_latent = 0
    /\ trans = NoShape
    /\ net = NoModel
    /\ vpc = "off"
    /\ verr = "none"
    /\ enc_out = NoEnc
    /\ lat = NoLat
    /\ gen = NoShape
    /\ recon = NoShape
    /\ fwd = NoFwd

InitVAE ==
    /\ size \in 0..MaxSize
    /\ n_channels \in 1..MaxChannels
    /\ n_latent \in 1..MaxLatent
    /\ \E b \in 1..MaxBatch, c \in 1..MaxChannels : trans = <<b, c, size>>
    /\ net = NoModel
    /\ vpc = "new"
    /\ verr = "none"
    /\ enc_out = NoEnc
    /\ lat = NoLat
    /\ gen = NoShape
    /\ recon = NoShape
    /\ fwd = NoFwd
    /\ DataIdle
    /\ LossIdle

\* model = VAE1D(size, n_channels, n_latent)
Construct ==
    /\ vpc = "new"
    /\ LET v == ValidateSize(size) IN
       IF v.ok
       THEN /\ net' = BuildModel(v.val, n_channels, n_latent)
            /\ vpc' = "built"
            /\ verr' = "none"
       ELSE /\ net' = NoModel
            /\ vpc' = "construct_raised"
            /\ verr' = v.err
    /\ UNCHANGED <<size, n_channels, n_latent, trans, enc_out, lat, gen, recon, fwd>>
    /\ UNCHANGED dataVars
    /\ UNCHANGED lossVars

\* mu, logvar = model.encode(trans)
Encode ==
    /\ vpc = "built"
    /\ LET o == RunSequential(net.encoder, 1, trans)
           e == EncodeOp(net, trans)
       IN /\ enc_out' = IF o.ok THEN [raw |-> o.val, squeezed |-> EncoderOutput(net, trans).val]
                                ELSE NoEnc
          /\ IF e.ok
             THEN lat' = e.val /\ vpc' = "encoded" /\ verr' = "none"
             ELSE lat' = NoLat /\ vpc' = "encode_raised" /\ verr' = e.err
    /\ UNCHANGED <<size, n_channels, n_latent, trans, net, gen, recon, fwd>>
    /\ UNCHANGED dataVars
    /\ UNCHANGED lossVars

\* gen = model.generate(mu, logvar)
Generate ==
    /\ vpc = "encoded"
    /\ LET g == GenerateOp(lat.mu, lat.logvar) IN
       IF g.ok
       THEN gen' = g.val /\ vpc' = "generated" /\ verr' = "none"
       ELSE gen' = NoShape /\ vpc' = "generate_raised" /\ verr' = g.err
    /\ UNCHANGED <<size, n_channels, n_latent, trans, net, enc_out, lat, recon, fwd>>
    /\ UNCHANGED dataVars
    /\ UNCHANGED lossVars

\* gen_trans = model.decode(gen)
Decode ==
    /\ vpc = "generated"
    /\ LET d == DecodeOp(net, gen) IN
       IF d.ok
       THEN recon' = d.val /\ vpc' = "decoded" /\ verr' = "none"
       ELSE recon' = NoShape /\ vpc' = "decode_raised" /\ verr' = d.err
    /\ UNCHANGED <<size, n_channels, n_latent, trans, net, enc_out, lat, gen, fwd>>
    /\ UNCHANGED dataVars
    /\ UNCHANGED lossVars

\* model(trans), i.e. model.forward(trans)
Forward ==
    /\ vpc = "built"
    /\ LET f == ForwardOp(net, trans) IN
       IF f.ok
       THEN fwd' = f.val /\ vpc' = "forwarded" /\ verr' = "none"
       ELSE fwd' = NoFwd /\ vpc' = "forward_raised" /\ verr' = f.err
    /\ UNCHANGED <<size, n_channels, n_latent, trans, net, enc_out, lat, gen, recon>>
    /\ UNCHANGED dataVars
    /\ UNCHANGED lossVars

NextVAE == Construct \/ Encode \/ Generate \/ Decode \/ Forward

SpecVAE == InitVAE /\ [][NextVAE]_vars

\* The batch has the shape the model was built for.
ValidInput == trans[2] = n_channels /\ trans[3] = size

RECURSIVE IsPowerOfTwo(_)
IsPowerOfTwo(x) == x = 1 \/ (x > 1 /\ x % 2 = 0 /\ IsPowerOfTwo(x \div 2))

-----------------------------------------------------------------------------
\* C1: construction succeeds if and only if size is a power of two and at least 8;
\* otherwise the constructor raises and no model exists.
C1_ConstructIffValidSize ==
    vpc # "new" =>
        /\ net.built <=> (IsPowerOfTwo(size) /\ size >= 8)
        /\ ~net.built => (vpc = "construct_raised" /\ verr # "none")

C1_Witness_Built == net.built /\ size = 16

\* C2 (as stated): the encoder pyramid's output has spatial length 1 before the heads.
C2_EncoderOutputLengthOne ==
    (net.built /\ ValidInput /\ vpc = "encoded") => enc_out.raw[3] = 1

\* C2 (amended): the encoder pyramid's output has spatial length filt_size (4) and
\* depth * 2^(n-3) channels, the squeezes leave it as it is, and it is the heads
\* that bring the length to 1.
C2_EncoderOutputLengthFour ==
    (net.built /\ ValidInput /\ vpc \in {"encode_raised", "encoded"}) =>
        /\ vpc = "encoded"
        /\ enc_out.raw = <<trans[1], depth * 2 ^ (net.n - 3), filt_size>>
        /\ enc_out.squeezed = enc_out.raw
        /\ lat.mu = <<trans[1], n_latent, 1>>
        /\ lat.logvar = <<trans[1], n_latent, 1>>

C2_Witness == net.built /\ ValidInput /\ vpc = "encoded" /\ size = 32

\* C3: on a valid batch encode, generate and decode run without a channel or length
\* mismatch and the reconstruction has the batch's shape (batch, n_channels, size).
C3_RoundTripShape ==
    (net.built /\ ValidInput) =>
        /\ vpc \notin {"encode_raised", "generate_raised", "decode_raised"}
        /\ vpc = "decoded" => recon = <<trans[1], n_channels, size>>

C3_Witness == net.built /\ ValidInput /\ vpc = "decoded" /\ size = 64 /\ trans[1] = 2

\* C4: forward on a valid batch completes and returns (decode(generate(mu, logvar)),
\* mu, logvar) with (mu, logvar) the result of encode on that batch.
C4_ForwardReturnsTriple ==
    (net.built /\ ValidInput /\ vpc \in {"forwarded", "forward_raised"}) =>
        /\ vpc = "forwarded"
        /\ EncodeOp(net, trans).ok
        /\ fwd.mu = EncodeOp(net, trans).val.mu
        /\ fwd.logvar = EncodeOp(net, trans).val.logvar
        /\ fwd.recon = DecodeOp(net, GenerateOp(fwd.mu, fwd.logvar).val).val

-----------------------------------------------------------------------------
(* The dataset session: the dataset is constructed on a directory tree, and  *)
(* num_workers workers then call len, __getitem__ and index on it,           *)
(* interleaved; __getitem__ runs one statement at a time.  The workers share the one dataset      *)
(* object (every interleaving that copies of it allow is among those of the  *)
(* shared object).  A worker has no identity beyond the call it is in, so    *)
(* the workers are held as the bag of their calls.                           *)

\* one channel with mean 0 and std 2
NormalsChoices == {<<<<0, 2>>>>}
Queries == FileNames \cup {<<Stems[k]>> : k \in 1..MaxFiles}

InitData ==
    /\ VAEIdle
    /\ LossIdle
    /\ fs \in {t \in Trees : WellFormed(t)}
    /\ normals \in NormalsChoices
    /\ ds = DatasetInit(fs, normals)
    /\ wk = [c \in {NoCall} |-> num_workers]

Calls == BagToSet(wk)

Free(c) == c.pc \in {"idle", "done"}

\* the worker in call state c moves to call state c2
Step(c, c2) == wk' = (wk (-) SetToBag({c})) (+) SetToBag({c2})

Finish(c, r) == Step(c, [c EXCEPT !.pc = "done", !.res = Outcome(r), !.name = PyNone, !.target = PyNone])

\* len(ds)
CallLen(c) ==
    /\ Free(c)
    /\ Step(c, [NoCall EXCEPT !.pc = "done", !.op = "len", !.res = Outcome(LenOp(ds))])
    /\ UNCHANGED <<fs, normals, ds>>
    /\ UNCHANGED vaeVars
    /\ UNCHANGED lossVars

\* ds[i] is called
CallGetItem(c, i) ==
    /\ Free(c)
    /\ Step(c, [NoCall EXCEPT !.pc = "get_name", !.op = "get", !.i = i])
    /\ UNCHANGED <<fs, normals, ds>>
    /\ UNCHANGED vaeVars
    /\ UNCHANGED lossVars

\* The read of self.names[index] that also removes the entry (self.names.pop(index)).
GetNamePop(c) ==
    /\ c.pc = "get_name"
    /\ LET r == Subscript(ds.names, PyInt(c.i)) IN
       IF r.ok
       THEN /\ Step(c, [c EXCEPT !.name = r.val, !.pc = "get_target"])
            /\ ds' = [ds EXCEPT !.names = SubSeq(ds.names, 1, c.i) \o
                                          SubSeq(ds.names, c.i + 2, Len(ds.names))]
       ELSE Finish(c, r) /\ ds' = ds
    /\ UNCHANGED <<fs, normals>>
    /\ UNCHANGED vaeVars
    /\ UNCHANGED lossVars

\* name = self.names[index]
GetName(c) ==
    /\ c.pc = "get_name"
    /\ LET r == Subscript(ds.names, PyInt(c.i)) IN
       IF r.ok THEN Step(c, [c EXCEPT !.name = r.val, !.pc = "get_target"])
       ELSE Finish(c, r)
    /\ UNCHANGED <<fs, normals, ds>>
    /\ UNCHANGED vaeVars
    /\ UNCHANGED lossVars

\* target = self.targets[index]
GetTarget(c) ==
    /\ c.pc = "get_target"
    /\ LET r == Subscript(ds.targets, PyInt(c.i)) IN
       IF r.ok THEN Step(c, [c EXCEPT !.target = r.val, !.pc = "get_path"])
       ELSE Finish(c, r)
    /\ UNCHANGED <<fs, normals, ds>>
    /\ UNCHANGED vaeVars
    /\ UNCHANGED lossVars

\* path = self.path / self.classes[target] / name; the load, norm and return
GetPathLoad(c) ==
    /\ c.pc = "get_path"
    /\ Finish(c, GetItemTail(ds, fs, c.name, c.target))
    /\ UNCHANGED <<fs, normals, ds>>
    /\ UNCHANGED vaeVars
    /\ UNCHANGED lossVars

\* ds.index(name): the whole call (its only read of the dataset is its last statement)
CallIndex(c, nm) ==
    /\ Free(c)
    /\ Step(c, [NoCall EXCEPT !.pc = "done", !.op = "index", !.nm = nm, !.res = Outcome(IndexOp(ds, nm))])
    /\ UNCHANGED <<fs, normals, ds>>
    /\ UNCHANGED vaeVars
    /\ UNCHANGED lossVars

NextData ==
    \/ \E c \in Calls : CallLen(c)
    \/ \E c \in Calls, i \in 0..MaxIndex : CallGetItem(c, i)
    \/ \E c \in Calls : GetName(c)
    \/ \E c \in Calls : GetTarget(c)
    \/ \E c \in Calls : GetPathLoad(c)
    \/ \E c \in Calls, nm \in Queries : CallIndex(c, nm)

SpecData == InitData /\ [][NextData]_vars

\* The index the directory tree calls for: every sample file, class directory by
\* class directory in sorted order, paired with the index of its class.
RECURSIVE FlatFrom(_, _, _)
FlatFrom(tree, classes, i) ==
    IF i >= Len(classes) THEN <<>>
    ELSE [j \in 1..Len(tree.files[classes[i + 1]]) |->
             [name |-> tree.files[classes[i + 1]][j], cls |-> i]]
         \o FlatFrom(tree, classes, i + 1)

FlatIndex(tree) == FlatFrom(tree, Sorted(tree.listing), 0)

WithExt(nm) == IF LastFour(nm) # Npy THEN nm \o Npy ELSE nm

Done(c, op) == c.pc = "done" /\ c.op = op

\* C5: the length of the dataset is the number of sample files summed over all
\* class subdirectories.
C5_LenIsTotalFiles ==
    \A c \in Calls : Done(c, "len") =>
        c.res.ok /\ c.res.val = PyInt(Len(FlatIndex(fs)))

\* C6: for 0 <= i < length(), get(i) succeeds and returns the i-th indexed sample
\* with the index, in sorted class order, of the class directory it came from.
C6_GetReturnsSampleAndClass ==
    \A c \in Calls :
        (Done(c, "get") /\ c.i < Len(ds.names) /\ c.i < Len(FlatIndex(fs))) =>
            /\ c.res.ok
            /\ c.res.val = PyTuple(Norm(ds, fs.content), PyInt(FlatIndex(fs)[c.i + 1].cls))

\* C7: index_of on a present '.npy' file name, with or without its extension,
\* returns the sample's position in the index.
C7_IndexOfIgnoresExtension ==
    \A c \in Calls :
        (Done(c, "index") /\ \E j \in 1..Len(FlatIndex(fs)) : FlatIndex(fs)[j].name = WithExt(c.nm)) =>
            /\ c.res.ok
            /\ c.res.val.t = "int"
            /\ FlatIndex(fs)[c.res.val.i + 1].name = WithExt(c.nm)

\* What a call returns or raises when it runs alone on the freshly constructed dataset.
Alone(c) ==
    LET fresh == DatasetInit(fs, normals) IN
    CASE c.op = "len" -> LenOp(fresh)
      [] c.op = "get" -> GetItemOp(fresh, fs, PyInt(c.i))
      [] c.op = "index" -> IndexOp(fresh, c.nm)

\* C9: whatever the workers have called and however their calls interleave, the
\* dataset's index and statistics are those of construction, and every finished
\* call has the outcome it has when run alone on the fresh dataset.
C9_CallsLeaveDatasetUnchanged ==
    /\ ds = DatasetInit(fs, normals)
    /\ \A c \in Calls : c.pc = "done" => c.res = Outcome(Alone(c))

\* all four workers are in a call or have finished one, on a dataset of two classes
C9_Witness ==
    /\ Len(ds.names) = 2
    /\ BagCardinality(wk) = num_workers
    /\ \E c1, c2, c3, c4 \in Calls :
          /\ Done(c1, "get") /\ c1.i = 0 /\ ~c1.res.ok
          /\ c2.pc = "get_path" /\ c2.i = 1
          /\ Done(c3, "index") /\ ~c3.res.ok
          /\ Done(c4, "len")

-----------------------------------------------------------------------------
(* The loss session: a loss module with weight beta is handed one set of     *)
(* tensors and called with reduce = FALSE and with reduce = TRUE.            *)

SampleLen == 2
Betas == {1, 2}

ConstTensors(shape, vals) ==
    {[shape |-> shape, data |-> [p \in 1..Numel(shape) |-> FromInt(v)]] : v \in vals}

\* the tensors that hold one value everywhere but in at most one position
NearConstTensors(shape, vals) ==
    {[shape |-> shape, data |-> [p \in 1..Numel(shape) |-> IF p = q THEN FromInt(v) ELSE FromInt(c)]] :
        c \in vals, v \in vals, q \in 1..Numel(shape)}

\* the shape in which encode returns mu and logvar for a batch of b samples
EncodedShape(b, nlat) == EncodeOp(BuildModel(3, 1, nlat), <<b, 1, 8>>).val.mu

InitLoss ==
    /\ VAEIdle
    /\ DataIdle
    /\ beta \in Betas
    /\ \E b \in 1..MaxBatch, nlat \in 1..MaxLatent :
         \E ms \in {<<b, nlat>>, EncodedShape(b, nlat)} :
            args \in [gen_trans : ConstTensors(<<b, 1, SampleLen>>, {0, 1}),
                      trans : NearConstTensors(<<b, 1, SampleLen>>, {0, 1}),
                      mu : NearConstTensors(ms, {0, 1}),
                      logvar : ConstTensors(ms, {-1, 0, 1})]
    /\ outs = [r \in BOOLEAN |-> NotCalled]

\* loss, desc = criterion(gen_trans, trans, mu, logvar, reduce)
LossForward(reduce) ==
    /\ ~outs[reduce].called
    /\ args # NoArgs
    /\ outs' = [outs EXCEPT ![reduce] =
                   LossOp(beta, args.gen_trans, args.trans, args.mu, args.logvar, reduce)]
    /\ UNCHANGED <<beta, args>>
    /\ UNCHANGED vaeVars
    /\ UNCHANGED dataVars

NextLoss == \E reduce \in BOOLEAN : LossForward(reduce)

SpecLoss == InitLoss /\ [][NextLoss]_vars

BatchOf == args.trans.shape[1]
LatentOf == args.mu.shape[2]

\* C8: with mu and logvar of shape (batch, n_latent), the loss, KL and logp returned
\* with reduce set are the batch means of the per-sample vectors returned without it.
C8_ReduceIsBatchMean ==
    (outs[TRUE].called /\ outs[FALSE].called /\ Len(args.mu.shape) = 2) =>
        /\ outs[TRUE].ok /\ outs[FALSE].ok
        /\ outs[FALSE].loss.shape = <<BatchOf>>
        /\ outs[TRUE].loss = Mean(outs[FALSE].loss)
        /\ outs[TRUE].KL = Mean(outs[FALSE].KL)
        /\ outs[TRUE].logp = Mean(outs[FALSE].logp)

C8_Witness ==
    /\ outs[TRUE].called /\ outs[FALSE].called /\ args.mu.shape = <<2, 2>>
    /\ outs[FALSE].loss.data[1] # outs[FALSE].loss.data[2]
    /\ beta = 2

\* the KL divergence of sample b (from 1) from the prior, summed over the latent dimensions
SampleKL(b) ==
    RSum([j \in 1..LatentOf |->
            LET m == args.mu.data[(b - 1) * LatentOf + j]
                lv == args.logvar.data[(b - 1) * LatentOf + j]
            IN Halve(RSub(RSub(RAdd(Exp(lv), Square(m)), lv), FromInt(1)))])

\* C10: on mu and logvar in the shape encode returns them, reduce = FALSE gives a KL
\* vector with one entry per sample, each the sum over the latent dimensions, and a
\* total loss vector with one entry per sample.
C10_KLPerSampleOnEncodedShape ==
    (outs[FALSE].called /\ args.mu.shape = EncodedShape(BatchOf, LatentOf)) =>
        /\ outs[FALSE].ok
        /\ outs[FALSE].KL.shape = <<BatchOf>>
        /\ \A b \in 1..BatchOf : outs[FALSE].KL.data[b] = SampleKL(b)
        /\ outs[FALSE].loss.shape = <<BatchOf>>

-----------------------------------------------------------------------------
(* The three sessions together: a run exercises one of the components *)

Init == InitVAE \/ InitData \/ InitLoss

Next == NextVAE \/ NextData \/ NextLoss

Spec == Init /\ [][Next]_vars

====
